---- MODULE Spec2Model ----
(***************************************************************************)
(* Model of quic/handshake/FizzCryptoFactory.cpp: the QUIC initial key     *)
(* schedule (salt selection, HKDF-Extract, HKDF-Expand-Label), the         *)
(* construction of the initial AEAD and of the packet-number ciphers, and  *)
(* the four record-layer adapters handed to the TLS handshake engine.      *)
(*                                                                         *)
(* Byte strings produced by the KDF are symbolic terms (records): Extract  *)
(* and Expand-Label are free constructors, so two derived values are equal *)
(* exactly when they were derived from equal inputs.                       *)
(***************************************************************************)
EXTENDS Integers, Sequences, FiniteSets, TLC

\* ------------------------------------------------------------------ bounds
MaxCalls  == 2   \* factory calls kept in the log of one behaviour
MaxCidLen == 1   \* longest connection id drawn
MaxBufLen == 3   \* most bytes held by a read buffer
MaxMsgLen == 2   \* longest fragment appended or written at once
MaxSharedCalls == 3   \* calls made on one factory shared by several connections
MaxStreams == 2   \* most streams a tperf server handler sends on
MaxWrites == 2   \* most writes modelled on one stream
MaxPeerStreams == 1   \* most streams the peer opens of each kind

Byte == {0, 1}

RECURSIVE SeqsUpTo(_, _)
SeqsUpTo(S, n) ==
  IF n = 0 THEN {<<>>}
  ELSE LET shorter == SeqsUpTo(S, n - 1)
       IN  shorter \cup {Append(s, b) : s \in {t \in shorter : Len(t) = n - 1}, b \in S}

\* ------------------------------------------------ enumerations and constants
RecognizedVersions == {"MVFST_OLD", "MVFST", "QUIC_DRAFT_22", "QUIC_DRAFT"}
UnrecognizedVersions == {"VERSION_NEGOTIATION", "MVFST_INVALID"}
QuicVersion == RecognizedVersions \cup UnrecognizedVersions

CipherSuite == {"TLS_AES_128_GCM_SHA256", "TLS_AES_256_GCM_SHA384",
                "TLS_CHACHA20_POLY1305_SHA256", "TLS_AES_128_CCM_SHA256"}

kClientInitialLabel == "client in"
kServerInitialLabel == "server in"
DirectionLabels == {kClientInitialLabel, kServerInitialLabel}

kQuicKeyLabel == "quic key"
kQuicIVLabel  == "quic iv"
kQuicPNLabel  == "quic hp"

kQuicDraft17Salt == "kQuicDraft17Salt"
kQuicDraft22Salt == "kQuicDraft22Salt"
kQuicDraft23Salt == "kQuicDraft23Salt"

ConnectionId == SeqsUpTo(Byte, MaxCidLen)

\* folly::IOBuf::create(0): the empty Expand-Label context
EmptyContext == <<>>

\* fizz::Sha256::HashLen
Sha256HashLen == 32

\* ------------------------------------------------------- KDF (fizz KeyDerivation)
hkdfExtract(salt, ikm) == [fn |-> "HKDF-Extract", salt |-> salt, ikm |-> ikm]

expandLabel(secret, label, context, length) ==
  [fn |-> "HKDF-Expand-Label", secret |-> secret, label |-> label,
   context |-> context, length |-> length]

\* ------------------------------------------------------------- AEAD (fizz::Aead)
AeadKeyLength(suite) == IF suite = "TLS_AES_256_GCM_SHA384" THEN 32 ELSE 16
AeadIvLength(suite)  == 12

\* makeAead(suite): a fresh AEAD with no key installed
makeAead(suite) == [suite |-> suite, trafficKey |-> <<>>, setKeyCalls |-> 0]

\* Aead::setKey(TrafficKey): the AEAD takes ownership of the key/iv pair
AeadSetKey(aead, trafficKey) ==
  [aead EXCEPT !.trafficKey = <<trafficKey>>, !.setKeyCalls = @ + 1]

\* --------------------------------------------------- makeInitialTrafficSecret
\* mutant: MVFST keeps the draft-17 salt instead of sharing draft-22's
SaltForVersionMvfstOnDraft17(version) ==
  CASE version \in {"MVFST_OLD", "MVFST"} -> kQuicDraft17Salt
    [] version = "QUIC_DRAFT_22" -> kQuicDraft22Salt
    [] version = "QUIC_DRAFT" -> kQuicDraft23Salt
    [] OTHER -> kQuicDraft17Salt

\* mutant: the default branch picks the newest salt
SaltForVersionDefaultNewest(version) ==
  CASE version = "MVFST_OLD" -> kQuicDraft17Salt
    [] version \in {"MVFST", "QUIC_DRAFT_22"} -> kQuicDraft22Salt
    [] OTHER -> kQuicDraft23Salt

SaltForVersion(version) ==
  CASE version = "MVFST_OLD" -> kQuicDraft17Salt
    [] version \in {"MVFST", "QUIC_DRAFT_22"} -> kQuicDraft22Salt
    [] version = "QUIC_DRAFT" -> kQuicDraft23Salt
    [] OTHER -> kQuicDraft17Salt

\* mutant: the direction label is not passed on to Expand-Label
makeInitialTrafficSecretFixedLabel(label, clientDestinationConnId, version) ==
  LET salt == SaltForVersion(version)
      initialSecret == hkdfExtract(salt, clientDestinationConnId)
  IN  expandLabel(initialSecret, kClientInitialLabel, EmptyContext, Sha256HashLen)

makeInitialTrafficSecret(label, clientDestinationConnId, version) ==
  LET salt == SaltForVersion(version)
      initialSecret == hkdfExtract(salt, clientDestinationConnId)
  IN  expandLabel(initialSecret, label, EmptyContext, Sha256HashLen)

\* -------------------------------------------------------- key buffers (Buf)
\* A Buf is a std::unique_ptr<folly::IOBuf>: <<b>> owns the bytes b, <<>> is null.
NullBuf == <<>>
OwningBuf(bytes) == <<bytes>>

\* std::move on a Buf: the destination owns the bytes, the source is null
MoveBuf(buf) == [dst |-> buf, src |-> NullBuf]

\* Destruction of a local Buf at function return: an owned IOBuf is freed
\* without being overwritten, so its bytes stay behind; a null Buf leaves none.
ScopeExit(buf) == buf

\* FizzAead::wrap: the transport-facing Aead owning the fizz AEAD
FizzAeadWrap(aead) == [fizzAead |-> aead]

\* ------------------------------------------------------------ makeInitialAead
\* mutant: the iv is expanded with the key label
makeInitialAeadIvFromKeyLabel(label, clientDestinationConnId, version) ==
  LET trafficSecret == makeInitialTrafficSecret(label, clientDestinationConnId, version)
      aead == makeAead("TLS_AES_128_GCM_SHA256")
      key == OwningBuf(expandLabel(trafficSecret, kQuicKeyLabel, EmptyContext,
                                   AeadKeyLength(aead.suite)))
      iv  == OwningBuf(expandLabel(trafficSecret, kQuicKeyLabel, EmptyContext,
                                   AeadIvLength(aead.suite)))
      trafficKey == [key |-> MoveBuf(key).dst[1], iv |-> MoveBuf(iv).dst[1]]
  IN  [aead |-> FizzAeadWrap(AeadSetKey(aead, trafficKey)),
       buffers |-> {[name |-> "key", handoff |-> "move", residue |-> ScopeExit(MoveBuf(key).src)],
                    [name |-> "iv",  handoff |-> "move", residue |-> ScopeExit(MoveBuf(iv).src)]}]

\* mutant: both directions are derived with the client label
makeInitialAeadFixedLabel(label, clientDestinationConnId, version) ==
  LET trafficSecret ==
        makeInitialTrafficSecret(kClientInitialLabel, clientDestinationConnId, version)
      aead == makeAead("TLS_AES_128_GCM_SHA256")
      key == OwningBuf(expandLabel(trafficSecret, kQuicKeyLabel, EmptyContext,
                                   AeadKeyLength(aead.suite)))
      iv  == OwningBuf(expandLabel(trafficSecret, kQuicIVLabel, EmptyContext,
                                   AeadIvLength(aead.suite)))
      trafficKey == [key |-> MoveBuf(key).dst[1], iv |-> MoveBuf(iv).dst[1]]
  IN  [aead |-> FizzAeadWrap(AeadSetKey(aead, trafficKey)),
       buffers |-> {[name |-> "key", handoff |-> "move", residue |-> ScopeExit(MoveBuf(key).src)],
                    [name |-> "iv",  handoff |-> "move", residue |-> ScopeExit(MoveBuf(iv).src)]}]

makeInitialAead(label, clientDestinationConnId, version) ==
  LET trafficSecret == makeInitialTrafficSecret(label, clientDestinationConnId, version)
      aead == makeAead("TLS_AES_128_GCM_SHA256")
      key == OwningBuf(expandLabel(trafficSecret, kQuicKeyLabel, EmptyContext,
                                   AeadKeyLength(aead.suite)))
      iv  == OwningBuf(expandLabel(trafficSecret, kQuicIVLabel, EmptyContext,
                                   AeadIvLength(aead.suite)))
      \* fizz::TrafficKey trafficKey = {std::move(key), std::move(iv)}
      trafficKey == [key |-> MoveBuf(key).dst[1], iv |-> MoveBuf(iv).dst[1]]
  IN  \* aead->setKey(std::move(trafficKey)); return FizzAead::wrap(std::move(aead))
      [aead |-> FizzAeadWrap(AeadSetKey(aead, trafficKey)),
       buffers |-> {[name |-> "key", handoff |-> "move", residue |-> ScopeExit(MoveBuf(key).src)],
                    [name |-> "iv",  handoff |-> "move", residue |-> ScopeExit(MoveBuf(iv).src)]}]

\* ---------------------------------------------------- packet-number ciphers
\* Aes128PacketNumberCipher / Aes256PacketNumberCipher, freshly constructed
NewPacketNumberCipher(variant) == [variant |-> variant, key |-> <<>>, setKeyCalls |-> 0]

PnKeyLength(cipher) == IF cipher.variant = "Aes128PacketNumberCipher" THEN 16 ELSE 32

\* PacketNumberCipher::setKey(folly::ByteRange): the cipher copies the viewed bytes
PnSetKey(cipher, keyRange) ==
  [cipher EXCEPT !.key = <<keyRange>>, !.setKeyCalls = @ + 1]

\* mutant: an unsupported suite silently gets the 128-bit cipher
makePacketNumberCipherForSuiteDefault128(cipher) ==
  CASE cipher = "TLS_AES_256_GCM_SHA384" ->
         [status |-> "ok", cipher |-> <<NewPacketNumberCipher("Aes256PacketNumberCipher")>>]
    [] OTHER ->
         [status |-> "ok", cipher |-> <<NewPacketNumberCipher("Aes128PacketNumberCipher")>>]

\* makePacketNumberCipher(fizz::CipherSuite)
makePacketNumberCipherForSuite(cipher) ==
  CASE cipher = "TLS_AES_128_GCM_SHA256" ->
         [status |-> "ok", cipher |-> <<NewPacketNumberCipher("Aes128PacketNumberCipher")>>]
    [] cipher = "TLS_AES_256_GCM_SHA384" ->
         [status |-> "ok", cipher |-> <<NewPacketNumberCipher("Aes256PacketNumberCipher")>>]
    [] OTHER ->
         \* throw std::runtime_error("Packet number cipher not implemented")
         [status |-> "NotImplemented", cipher |-> <<>>]

\* mutant: the derived key is never installed
makePacketNumberCipherNoSetKey(baseSecret) ==
  LET made == makePacketNumberCipherForSuite("TLS_AES_128_GCM_SHA256")
  IN  IF made.status # "ok"
      THEN [status |-> made.status, cipher |-> <<>>, buffers |-> {}]
      ELSE LET pnCipher == made.cipher[1]
               pnKey == OwningBuf(expandLabel(baseSecret, kQuicPNLabel, EmptyContext,
                                              PnKeyLength(pnCipher)))
           IN  [status |-> "ok", cipher |-> <<pnCipher>>,
                buffers |-> {[name |-> "pnKey", handoff |-> "view",
                              residue |-> ScopeExit(pnKey)]}]

\* makePacketNumberCipher(folly::ByteRange baseSecret)
makePacketNumberCipher(baseSecret) ==
  LET made == makePacketNumberCipherForSuite("TLS_AES_128_GCM_SHA256")
  IN  IF made.status # "ok"
      THEN [status |-> made.status, cipher |-> <<>>, buffers |-> {}]
      ELSE LET pnCipher == made.cipher[1]
               pnKey == OwningBuf(expandLabel(baseSecret, kQuicPNLabel, EmptyContext,
                                              PnKeyLength(pnCipher)))
           IN  \* pnCipher->setKey(pnKey->coalesce()): a view of pnKey's bytes is
               \* passed; pnKey keeps owning them until it goes out of scope
               [status |-> "ok", cipher |-> <<PnSetKey(pnCipher, pnKey[1])>>,
                buffers |-> {[name |-> "pnKey", handoff |-> "view",
                              residue |-> ScopeExit(pnKey)]}]

\* ------------------------------------------ transport-facing Aead (seal / open)
\* A sealed payload is a symbolic ciphertext bound to the key/iv pair, the nonce
\* and the associated data it was sealed with.
AeadSeal(aead, plaintext, nonce, associatedData) ==
  [trafficKey |-> aead.fizzAead.trafficKey, nonce |-> nonce,
   associatedData |-> associatedData, plaintext |-> plaintext]

AeadOpen(aead, ciphertext, nonce, associatedData) ==
  IF /\ ciphertext.trafficKey = aead.fizzAead.trafficKey
     /\ ciphertext.nonce = nonce
     /\ ciphertext.associatedData = associatedData
  THEN [status |-> "ok", plaintext |-> <<ciphertext.plaintext>>]
  ELSE [status |-> "AuthenticationFailure", plaintext |-> <<>>]

\* ------------------------------------------------------ record-layer adapters
ContentType == {"handshake", "alert", "application_data", "change_cipher_spec"}
EncryptionLevel == {"Plaintext", "Handshake", "EarlyData", "AppTraffic"}

\* an IOBufQueue is the sequence of bytes it holds
IOBufQueueEmpty(buf) == Len(buf) = 0
IOBufQueueMove(buf) == [moved |-> buf, buf |-> <<>>]

QuicPlaintextReadRecordLayer_read(buf) ==
  IF IOBufQueueEmpty(buf)
  THEN [msg |-> <<>>, buf |-> buf]
  ELSE [msg |-> <<[type |-> "handshake", fragment |-> IOBufQueueMove(buf).moved]>>,
        buf |-> IOBufQueueMove(buf).buf]

\* mutant: only the first byte of the buffer is consumed
QuicEncryptedReadRecordLayer_readFirstByte(buf) ==
  IF IOBufQueueEmpty(buf)
  THEN [msg |-> <<>>, buf |-> buf]
  ELSE [msg |-> <<[type |-> "handshake", fragment |-> <<Head(buf)>>]>>,
        buf |-> Tail(buf)]

QuicEncryptedReadRecordLayer_read(buf) ==
  IF IOBufQueueEmpty(buf)
  THEN [msg |-> <<>>, buf |-> buf]
  ELSE [msg |-> <<[type |-> "handshake", fragment |-> IOBufQueueMove(buf).moved]>>,
        buf |-> IOBufQueueMove(buf).buf]

\* the level a record layer reports: Plaintext for the plaintext layers, the
\* constructor argument for the encrypted ones
makePlaintextWriteRecordLayer == [mode |-> "plaintext", encryptionLevel |-> "Plaintext"]
makeEncryptedWriteRecordLayer(encryptionLevel) ==
  [mode |-> "encrypted", encryptionLevel |-> encryptionLevel]
getEncryptionLevel(layer) == layer.encryptionLevel

QuicPlaintextWriteRecordLayer_write(layer, msg) ==
  [data |-> msg.fragment, contentType |-> msg.type,
   encryptionLevel |-> getEncryptionLevel(layer)]

QuicPlaintextWriteRecordLayer_writeInitialClientHello(layer, encodedClientHello) ==
  QuicPlaintextWriteRecordLayer_write(layer,
      [type |-> "handshake", fragment |-> encodedClientHello])

\* mutant: every record is tagged as handshake-level
QuicEncryptedWriteRecordLayer_writeHandshakeLevel(layer, msg) ==
  [data |-> msg.fragment, contentType |-> msg.type, encryptionLevel |-> "Handshake"]

QuicEncryptedWriteRecordLayer_write(layer, msg) ==
  [data |-> msg.fragment, contentType |-> msg.type,
   encryptionLevel |-> getEncryptionLevel(layer)]

\* ======================================================================= state
VARIABLES
  calls,        \* log of the factory calls made so far, with their results
  connId,       \* client's original destination connection id of the connection
  connVersion,  \* version of the connection
  writeAead,    \* initial AEAD for the write direction (<<>> until built)
  readAead,     \* initial AEAD for the read direction (<<>> until built)
  sealed,       \* last payload sealed under the write AEAD (<<>> if none)
  opened,       \* last open attempt on the sealed payload (<<>> if none)
  encLevel,     \* level the encrypted record layers were constructed with
  readBuf,      \* the handshake engine's input queue of each read record layer
  lastOp,       \* last record-layer operation and what it returned (<<>> if none)
  numStreams_,  \* tperf ServerStreamHandler: streams it sends on
  sock_,        \* tperf ServerStreamHandler: "set" or "null" (after reset())
  conn,         \* the handler's transport: "new", "ready" or "closed"
  pendingWrite, \* streams with a write callback registered on the transport
  evbQueue,     \* functions queued on the event base, oldest first
  written,      \* per stream, how many writeChain calls were made
  readCallbacks,\* peer streams whose read callback was set
  fault         \* "none", or how the process died

vars == <<calls, connId, connVersion, writeAead, readAead, sealed, opened,
          encLevel, readBuf, lastOp,
          numStreams_, sock_, conn, pendingWrite, evbQueue, written,
          readCallbacks, fault>>

tperfVars == <<numStreams_, sock_, conn, pendingWrite, evbQueue, written,
               readCallbacks, fault>>

factoryVars    == <<calls>>
protectionVars == <<connId, connVersion, writeAead, readAead, sealed, opened>>
recordVars     == <<encLevel, readBuf, lastOp>>

LayerModes == {"plaintext", "encrypted"}

\* the state of a ServerStreamHandler right after
\* TPerfServerTransportFactory::make: setQuicSocket was called, nothing ran yet
HandlerConstructed(numStreams) ==
  /\ numStreams_ = numStreams
  /\ sock_ = "set"
  /\ conn = "new"
  /\ pendingWrite = {}
  /\ evbQueue = <<>>
  /\ written = [id \in 1..numStreams |-> 0]
  /\ readCallbacks = {}
  /\ fault = "none"

TperfIdle == HandlerConstructed(1)

FactoryIdle == calls = <<>>
ProtectionIdle ==
  /\ connId = <<>> /\ connVersion = "MVFST"
  /\ writeAead = <<>> /\ readAead = <<>> /\ sealed = <<>> /\ opened = <<>>
RecordIdle ==
  /\ encLevel = "Handshake"
  /\ readBuf = [m \in LayerModes |-> <<>>]
  /\ lastOp = <<>>

\* =========================================================== factory calls
\* secrets handed to makePacketNumberCipher: derived traffic secrets and raw bytes
BaseSecrets ==
  {makeInitialTrafficSecret(l, c, "MVFST") : l \in DirectionLabels, c \in ConnectionId}
    \cup {[fn |-> "bytes", bytes |-> b] : b \in ConnectionId}

CallMakeInitialTrafficSecret ==
  /\ Len(calls) < MaxCalls
  /\ \E label \in DirectionLabels, cid \in ConnectionId, version \in QuicVersion :
       calls' = Append(calls,
         [op |-> "makeInitialTrafficSecret", label |-> label, connId |-> cid,
          version |-> version,
          secret |-> makeInitialTrafficSecret(label, cid, version)])
  /\ UNCHANGED <<protectionVars, recordVars, tperfVars>>

CallMakeInitialAead ==
  /\ Len(calls) < MaxCalls
  /\ \E label \in DirectionLabels, cid \in ConnectionId, version \in QuicVersion :
       LET r == makeInitialAead(label, cid, version)
       IN  calls' = Append(calls,
             [op |-> "makeInitialAead", label |-> label, connId |-> cid,
              version |-> version, aead |-> r.aead, buffers |-> r.buffers])
  /\ UNCHANGED <<protectionVars, recordVars, tperfVars>>

CallMakePacketNumberCipherForSuite ==
  /\ Len(calls) < MaxCalls
  /\ \E suite \in CipherSuite :
       LET r == makePacketNumberCipherForSuite(suite)
       IN  calls' = Append(calls,
             [op |-> "makePacketNumberCipher(CipherSuite)", suite |-> suite,
              status |-> r.status, cipher |-> r.cipher])
  /\ UNCHANGED <<protectionVars, recordVars, tperfVars>>

CallMakePacketNumberCipher ==
  /\ Len(calls) < MaxCalls
  /\ \E baseSecret \in BaseSecrets :
       LET r == makePacketNumberCipher(baseSecret)
       IN  calls' = Append(calls,
             [op |-> "makePacketNumberCipher(ByteRange)", baseSecret |-> baseSecret,
              status |-> r.status, cipher |-> r.cipher, buffers |-> r.buffers])
  /\ UNCHANGED <<protectionVars, recordVars, tperfVars>>

InitFactory == FactoryIdle /\ ProtectionIdle /\ RecordIdle /\ TperfIdle

NextFactory ==
  \/ CallMakeInitialTrafficSecret
  \/ CallMakeInitialAead
  \/ CallMakePacketNumberCipherForSuite
  \/ CallMakePacketNumberCipher

SpecFactory == InitFactory /\ [][NextFactory]_vars

CallsOf(op) == {i \in DOMAIN calls : calls[i].op = op}
SecretCalls == CallsOf("makeInitialTrafficSecret")

\* C1: for one (label, connection id), the secrets derived under two different
\* recognized versions are equal exactly when the two versions are MVFST and
\* QUIC_DRAFT_22, which share a salt; any other two recognized versions give
\* different secrets.
C1_VersionSensitivity ==
  \A i \in SecretCalls, j \in SecretCalls :
    ( /\ calls[i].label = calls[j].label
      /\ calls[i].connId = calls[j].connId
      /\ calls[i].version \in RecognizedVersions
      /\ calls[j].version \in RecognizedVersions
      /\ calls[i].version # calls[j].version )
    => ( (calls[i].secret = calls[j].secret)
           <=> ({calls[i].version, calls[j].version} = {"MVFST", "QUIC_DRAFT_22"}) )

C1_Witness ==
  \E i \in SecretCalls, j \in SecretCalls :
    /\ calls[i].label = calls[j].label
    /\ calls[i].connId = calls[j].connId
    /\ calls[i].version = "MVFST"
    /\ calls[j].version = "QUIC_DRAFT_22"
    /\ calls[i].secret = calls[j].secret

\* C2: a derivation under an unrecognized version returns a secret, the one
\* extracted with the draft-17 salt, and it equals the secret derived for
\* MVFST_OLD with the same label and connection id.
C2_UnrecognizedFallsBack ==
  /\ \A i \in SecretCalls :
       calls[i].version \in UnrecognizedVersions =>
         calls[i].secret =
           expandLabel(hkdfExtract(kQuicDraft17Salt, calls[i].connId),
                       calls[i].label, EmptyContext, Sha256HashLen)
  /\ \A i \in SecretCalls, j \in SecretCalls :
       ( /\ calls[i].label = calls[j].label
         /\ calls[i].connId = calls[j].connId
         /\ calls[i].version \in UnrecognizedVersions
         /\ calls[j].version = "MVFST_OLD" )
       => calls[i].secret = calls[j].secret

C2_Witness ==
  \E i \in SecretCalls, j \in SecretCalls :
    /\ calls[i].label = calls[j].label
    /\ calls[i].connId = calls[j].connId
    /\ calls[i].version \in UnrecognizedVersions
    /\ calls[j].version = "MVFST_OLD"

\* C3: for one (connection id, version), the secret derived with "client in"
\* differs from the secret derived with "server in"; this includes the empty
\* connection id and unrecognized versions.
C3_DirectionalSeparation ==
  \A i \in SecretCalls, j \in SecretCalls :
    ( /\ calls[i].connId = calls[j].connId
      /\ calls[i].version = calls[j].version
      /\ calls[i].label = "client in"
      /\ calls[j].label = "server in" )
    => calls[i].secret # calls[j].secret

C3_Witness ==
  \E i \in SecretCalls, j \in SecretCalls :
    /\ calls[i].connId = <<>> /\ calls[j].connId = <<>>
    /\ calls[i].version = calls[j].version
    /\ calls[i].version \in UnrecognizedVersions
    /\ calls[i].label = "client in"
    /\ calls[j].label = "server in"

AeadCalls == CallsOf("makeInitialAead")
SuiteCipherCalls == CallsOf("makePacketNumberCipher(CipherSuite)")
SecretCipherCalls == CallsOf("makePacketNumberCipher(ByteRange)")

\* C4: the AEAD returned by makeInitialAead(label, cid, version) is built for
\* TLS_AES_128_GCM_SHA256 and has had exactly one key/iv pair installed:
\* key = Expand-Label(S, "quic key", empty, 16), iv = Expand-Label(S, "quic iv",
\* empty, 12), where S is the secret makeInitialTrafficSecret returns for the
\* same three arguments.
C4_InitialAeadKeys ==
  /\ \A i \in AeadCalls :
       LET S == makeInitialTrafficSecret(calls[i].label, calls[i].connId, calls[i].version)
           a == calls[i].aead.fizzAead
       IN  /\ a.suite = "TLS_AES_128_GCM_SHA256"
           /\ a.setKeyCalls = 1
           /\ a.trafficKey =
                <<[key |-> expandLabel(S, "quic key", <<>>, AeadKeyLength(a.suite)),
                   iv  |-> expandLabel(S, "quic iv", <<>>, AeadIvLength(a.suite))]>>
  /\ \A i \in AeadCalls, j \in SecretCalls :
       ( /\ calls[i].label = calls[j].label
         /\ calls[i].connId = calls[j].connId
         /\ calls[i].version = calls[j].version )
       => /\ calls[i].aead.fizzAead.trafficKey[1].key.secret = calls[j].secret
          /\ calls[i].aead.fizzAead.trafficKey[1].iv.secret = calls[j].secret

C4_Witness ==
  \E i \in AeadCalls, j \in SecretCalls :
    /\ calls[i].label = calls[j].label
    /\ calls[i].connId = calls[j].connId
    /\ calls[i].version = calls[j].version
    /\ calls[i].aead.fizzAead.setKeyCalls = 1

\* C6: makePacketNumberCipher(cipherSuite) returns the 128-bit cipher for
\* TLS_AES_128_GCM_SHA256 and the 256-bit cipher for TLS_AES_256_GCM_SHA384,
\* both without a key installed, and fails with NotImplemented, returning no
\* cipher, for every other suite.
C6_SuiteDispatch ==
  \A i \in SuiteCipherCalls :
    CASE calls[i].suite = "TLS_AES_128_GCM_SHA256" ->
           /\ calls[i].status = "ok"
           /\ calls[i].cipher =
                <<[variant |-> "Aes128PacketNumberCipher", key |-> <<>>, setKeyCalls |-> 0]>>
      [] calls[i].suite = "TLS_AES_256_GCM_SHA384" ->
           /\ calls[i].status = "ok"
           /\ calls[i].cipher =
                <<[variant |-> "Aes256PacketNumberCipher", key |-> <<>>, setKeyCalls |-> 0]>>
      [] OTHER ->
           /\ calls[i].status = "NotImplemented"
           /\ calls[i].cipher = <<>>

C6_Witness ==
  \E i \in SuiteCipherCalls, j \in SuiteCipherCalls :
    /\ calls[i].suite = "TLS_AES_256_GCM_SHA384" /\ calls[i].status = "ok"
    /\ calls[j].suite = "TLS_CHACHA20_POLY1305_SHA256" /\ calls[j].status = "NotImplemented"

\* C7: makePacketNumberCipher(baseSecret) never fails and returns the 128-bit
\* packet-number cipher on which setKey was called exactly once, with
\* key = Expand-Label(baseSecret, "quic hp", empty, the cipher's key length).
C7_KeyedInitialCipher ==
  \A i \in SecretCipherCalls :
    /\ calls[i].status = "ok"
    /\ Len(calls[i].cipher) = 1
    /\ calls[i].cipher[1].variant = "Aes128PacketNumberCipher"
    /\ calls[i].cipher[1].setKeyCalls = 1
    /\ calls[i].cipher[1].key =
         <<expandLabel(calls[i].baseSecret, "quic hp", <<>>, PnKeyLength(calls[i].cipher[1]))>>

C7_Witness ==
  \E i \in SecretCipherCalls :
    /\ calls[i].baseSecret = makeInitialTrafficSecret("client in", <<>>, "MVFST")
    /\ calls[i].status = "ok"
    /\ calls[i].cipher[1].setKeyCalls = 1

\* C10: when makeInitialAead or makePacketNumberCipher(baseSecret) returns,
\* every key, iv and header-protection key buffer it derived was handed over
\* by move and its source buffer holds no key bytes any more.
C10_KeyBuffersMovedAndCleared ==
  \A i \in AeadCalls \cup SecretCipherCalls :
    \A b \in calls[i].buffers :
      /\ b.handoff = "move"
      /\ b.residue = NullBuf

\* the part of C10 that the code satisfies: the key and iv of makeInitialAead
C10_AeadBuffersMoved ==
  \A i \in AeadCalls :
    /\ {b.name : b \in calls[i].buffers} = {"key", "iv"}
    /\ \A b \in calls[i].buffers : b.handoff = "move" /\ b.residue = NullBuf

\* ============================================== initial packet protection
Payloads == SeqsUpTo(Byte, MaxMsgLen)
Nonces == {0, 1}
AssociatedData == {<<>>, <<0>>}

\* the connection builds the AEAD of each direction from its connection id and
\* version: "client in" protects what it writes, "server in" what it reads
BuildWriteAead ==
  /\ writeAead = <<>>
  /\ writeAead' = <<makeInitialAead(kClientInitialLabel, connId, connVersion).aead>>
  /\ UNCHANGED <<connId, connVersion, readAead, sealed, opened, factoryVars, recordVars, tperfVars>>

BuildReadAead ==
  /\ readAead = <<>>
  /\ readAead' = <<makeInitialAead(kServerInitialLabel, connId, connVersion).aead>>
  /\ UNCHANGED <<connId, connVersion, writeAead, sealed, opened, factoryVars, recordVars, tperfVars>>

SealPayload ==
  /\ writeAead # <<>>
  /\ sealed = <<>>
  /\ \E plaintext \in Payloads, nonce \in Nonces, ad \in AssociatedData :
       sealed' = <<[ciphertext |-> AeadSeal(writeAead[1], plaintext, nonce, ad),
                    plaintext |-> plaintext, nonce |-> nonce, associatedData |-> ad]>>
  /\ UNCHANGED <<connId, connVersion, writeAead, readAead, opened, factoryVars, recordVars, tperfVars>>

OpenUnderWriteAead ==
  /\ sealed # <<>>
  /\ writeAead # <<>>
  /\ \E nonce \in Nonces, ad \in AssociatedData :
       opened' = <<[under |-> "write", nonce |-> nonce, associatedData |-> ad,
                    result |-> AeadOpen(writeAead[1], sealed[1].ciphertext, nonce, ad)]>>
  /\ UNCHANGED <<connId, connVersion, writeAead, readAead, sealed, factoryVars, recordVars, tperfVars>>

OpenUnderReadAead ==
  /\ sealed # <<>>
  /\ readAead # <<>>
  /\ \E nonce \in Nonces, ad \in AssociatedData :
       opened' = <<[under |-> "read", nonce |-> nonce, associatedData |-> ad,
                    result |-> AeadOpen(readAead[1], sealed[1].ciphertext, nonce, ad)]>>
  /\ UNCHANGED <<connId, connVersion, writeAead, readAead, sealed, factoryVars, recordVars, tperfVars>>

InitProtection ==
  /\ connId \in ConnectionId
  /\ connVersion \in QuicVersion
  /\ writeAead = <<>> /\ readAead = <<>> /\ sealed = <<>> /\ opened = <<>>
  /\ FactoryIdle /\ RecordIdle /\ TperfIdle

NextProtection ==
  \/ BuildWriteAead
  \/ BuildReadAead
  \/ SealPayload
  \/ OpenUnderWriteAead
  \/ OpenUnderReadAead

SpecProtection == InitProtection /\ [][NextProtection]_vars

\* C5: a payload sealed under the write-direction initial AEAD and opened with
\* the same nonce and associated data is recovered unchanged under that same
\* AEAD, while the read-direction AEAD of the same connection id and version
\* reports an authentication failure and yields no plaintext.
C5_SealOpenByDirection ==
  (opened # <<>> /\ sealed # <<>>
     /\ opened[1].nonce = sealed[1].nonce
     /\ opened[1].associatedData = sealed[1].associatedData)
  => /\ opened[1].under = "write" =>
          opened[1].result = [status |-> "ok", plaintext |-> <<sealed[1].plaintext>>]
     /\ opened[1].under = "read" =>
          opened[1].result = [status |-> "AuthenticationFailure", plaintext |-> <<>>]

C5_Witness ==
  /\ opened # <<>> /\ sealed # <<>>
  /\ opened[1].under = "read"
  /\ opened[1].nonce = sealed[1].nonce
  /\ opened[1].associatedData = sealed[1].associatedData
  /\ Len(sealed[1].plaintext) = MaxMsgLen
  /\ opened[1].result.status = "AuthenticationFailure"

\* ======================================================= record-layer traffic
Fragments == SeqsUpTo(Byte, MaxMsgLen)
TLSMessages == [type : ContentType, fragment : Fragments]

\* the handshake engine queues received crypto bytes on a layer's input buffer
AppendToReadBuf ==
  /\ \E mode \in LayerModes, bytes \in Fragments \ {<<>>} :
       /\ Len(readBuf[mode]) + Len(bytes) <= MaxBufLen
       /\ readBuf' = [readBuf EXCEPT ![mode] = @ \o bytes]
  /\ UNCHANGED <<encLevel, lastOp, factoryVars, protectionVars, tperfVars>>

ReadPlaintext ==
  /\ LET r == QuicPlaintextReadRecordLayer_read(readBuf["plaintext"])
     IN  /\ readBuf' = [readBuf EXCEPT !["plaintext"] = r.buf]
         /\ lastOp' = <<[op |-> "read", mode |-> "plaintext",
                         before |-> readBuf["plaintext"], msg |-> r.msg,
                         after |-> r.buf]>>
  /\ UNCHANGED <<encLevel, factoryVars, protectionVars, tperfVars>>

ReadEncrypted ==
  /\ LET r == QuicEncryptedReadRecordLayer_read(readBuf["encrypted"])
     IN  /\ readBuf' = [readBuf EXCEPT !["encrypted"] = r.buf]
         /\ lastOp' = <<[op |-> "read", mode |-> "encrypted",
                         before |-> readBuf["encrypted"], msg |-> r.msg,
                         after |-> r.buf]>>
  /\ UNCHANGED <<encLevel, factoryVars, protectionVars, tperfVars>>

WritePlaintext ==
  /\ \E msg \in TLSMessages :
       lastOp' = <<[op |-> "write", mode |-> "plaintext", msg |-> msg,
                    content |-> QuicPlaintextWriteRecordLayer_write(
                                  makePlaintextWriteRecordLayer, msg)]>>
  /\ UNCHANGED <<encLevel, readBuf, factoryVars, protectionVars, tperfVars>>

WriteInitialClientHello ==
  /\ \E bytes \in Fragments :
       lastOp' = <<[op |-> "writeInitialClientHello", mode |-> "plaintext",
                    bytes |-> bytes,
                    content |-> QuicPlaintextWriteRecordLayer_writeInitialClientHello(
                                  makePlaintextWriteRecordLayer, bytes)]>>
  /\ UNCHANGED <<encLevel, readBuf, factoryVars, protectionVars, tperfVars>>

WriteEncrypted ==
  /\ \E msg \in TLSMessages :
       lastOp' = <<[op |-> "write", mode |-> "encrypted", msg |-> msg,
                    content |-> QuicEncryptedWriteRecordLayer_write(
                                  makeEncryptedWriteRecordLayer(encLevel), msg)]>>
  /\ UNCHANGED <<encLevel, readBuf, factoryVars, protectionVars, tperfVars>>

InitRecord ==
  /\ encLevel \in EncryptionLevel
  /\ readBuf = [m \in LayerModes |-> <<>>]
  /\ lastOp = <<>>
  /\ FactoryIdle /\ ProtectionIdle /\ TperfIdle

NextRecord ==
  \/ AppendToReadBuf
  \/ ReadPlaintext
  \/ ReadEncrypted
  \/ WritePlaintext
  \/ WriteInitialClientHello
  \/ WriteEncrypted

SpecRecord == InitRecord /\ [][NextRecord]_vars

\* C8: a read on an empty buffer returns no message and leaves the buffer
\* empty; a read on a non-empty buffer returns one handshake message whose
\* fragment is every byte the buffer held, in order, and leaves the buffer
\* empty. This holds for the plaintext and the encrypted read layer.
C8_ReadConsumesAll ==
  (lastOp # <<>> /\ lastOp[1].op = "read") =>
    /\ lastOp[1].after = <<>>
    /\ lastOp[1].before = <<>> => lastOp[1].msg = <<>>
    /\ lastOp[1].before # <<>> =>
         lastOp[1].msg = <<[type |-> "handshake", fragment |-> lastOp[1].before]>>

C8_Witness ==
  /\ lastOp # <<>>
  /\ lastOp[1].op = "read"
  /\ lastOp[1].mode = "encrypted"
  /\ Len(lastOp[1].before) = MaxBufLen
  /\ Len(lastOp[1].msg) = 1
  /\ readBuf["encrypted"] = <<>>

\* C9: write returns the message's bytes unchanged under the message's content
\* type and the encryption level of the layer (Plaintext for the plaintext
\* layer, the constructor's level for the encrypted one); writeInitialClientHello
\* returns the given bytes as handshake content at the Plaintext level.
C9_WritePassesThrough ==
  /\ (lastOp # <<>> /\ lastOp[1].op = "write") =>
       lastOp[1].content =
         [data |-> lastOp[1].msg.fragment,
          contentType |-> lastOp[1].msg.type,
          encryptionLevel |->
            IF lastOp[1].mode = "plaintext" THEN "Plaintext" ELSE encLevel]
  /\ (lastOp # <<>> /\ lastOp[1].op = "writeInitialClientHello") =>
       lastOp[1].content =
         [data |-> lastOp[1].bytes, contentType |-> "handshake",
          encryptionLevel |-> "Plaintext"]

C9_Witness ==
  /\ lastOp # <<>>
  /\ lastOp[1].op = "write"
  /\ lastOp[1].mode = "encrypted"
  /\ encLevel = "AppTraffic"
  /\ lastOp[1].msg.type = "alert"
  /\ Len(lastOp[1].msg.fragment) = MaxMsgLen
  /\ lastOp[1].content.encryptionLevel = "AppTraffic"


\* ================================== one factory shared by several connections
\* The factory object has no member that its operations read or write: every
\* operation is a const method working on its arguments and locals only. The
\* connections sharing it call it in any order; the log records each call.
SharedConnIds == {<<>>, <<0>>}
SharedAeadVersions == {"MVFST", "MVFST_INVALID"}
SharedBaseSecrets ==
  {makeInitialTrafficSecret(kClientInitialLabel, c, "MVFST") : c \in SharedConnIds}

\* mutant: the factory keeps the selected salt in a member that is updated
\* only after the derivation, so a call extracts with the salt of the call
\* before it
SharedMakeInitialTrafficSecretCachedSalt ==
  /\ Len(calls) < MaxSharedCalls
  /\ \E label \in DirectionLabels, cid \in SharedConnIds, version \in QuicVersion :
       LET salt == IF SecretCalls = {} THEN SaltForVersion(version)
                   ELSE SaltForVersion(
                          calls[CHOOSE i \in SecretCalls :
                                  \A j \in SecretCalls : j <= i].version)
       IN  calls' = Append(calls,
             [op |-> "makeInitialTrafficSecret", label |-> label, connId |-> cid,
              version |-> version,
              secret |-> expandLabel(hkdfExtract(salt, cid), label, EmptyContext,
                                     Sha256HashLen)])
  /\ UNCHANGED <<protectionVars, recordVars, tperfVars>>

SharedMakeInitialTrafficSecret ==
  /\ Len(calls) < MaxSharedCalls
  /\ \E label \in DirectionLabels, cid \in SharedConnIds, version \in QuicVersion :
       calls' = Append(calls,
         [op |-> "makeInitialTrafficSecret", label |-> label, connId |-> cid,
          version |-> version,
          secret |-> makeInitialTrafficSecret(label, cid, version)])
  /\ UNCHANGED <<protectionVars, recordVars, tperfVars>>

SharedMakeInitialAead ==
  /\ Len(calls) < MaxSharedCalls
  /\ \E label \in DirectionLabels, cid \in SharedConnIds, version \in SharedAeadVersions :
       LET r == makeInitialAead(label, cid, version)
       IN  calls' = Append(calls,
             [op |-> "makeInitialAead", label |-> label, connId |-> cid,
              version |-> version, aead |-> r.aead, buffers |-> r.buffers])
  /\ UNCHANGED <<protectionVars, recordVars, tperfVars>>

SharedMakePacketNumberCipherForSuite ==
  /\ Len(calls) < MaxSharedCalls
  /\ \E suite \in CipherSuite :
       LET r == makePacketNumberCipherForSuite(suite)
       IN  calls' = Append(calls,
             [op |-> "makePacketNumberCipher(CipherSuite)", suite |-> suite,
              status |-> r.status, cipher |-> r.cipher])
  /\ UNCHANGED <<protectionVars, recordVars, tperfVars>>

SharedMakePacketNumberCipher ==
  /\ Len(calls) < MaxSharedCalls
  /\ \E baseSecret \in SharedBaseSecrets :
       LET r == makePacketNumberCipher(baseSecret)
       IN  calls' = Append(calls,
             [op |-> "makePacketNumberCipher(ByteRange)", baseSecret |-> baseSecret,
              status |-> r.status, cipher |-> r.cipher, buffers |-> r.buffers])
  /\ UNCHANGED <<protectionVars, recordVars, tperfVars>>

NextShared ==
  \/ SharedMakeInitialTrafficSecret
  \/ SharedMakeInitialAead
  \/ SharedMakePacketNumberCipherForSuite
  \/ SharedMakePacketNumberCipher

SpecShared == InitFactory /\ [][NextShared]_vars

\* the arguments and the returned value of a logged call
CallArgs(c) ==
  CASE c.op \in {"makeInitialTrafficSecret", "makeInitialAead"} ->
         [label |-> c.label, connId |-> c.connId, version |-> c.version]
    [] c.op = "makePacketNumberCipher(CipherSuite)" -> [suite |-> c.suite]
    [] OTHER -> [baseSecret |-> c.baseSecret]

CallResult(c) ==
  CASE c.op = "makeInitialTrafficSecret" -> [secret |-> c.secret]
    [] c.op = "makeInitialAead" -> [aead |-> c.aead]
    [] OTHER -> [status |-> c.status, cipher |-> c.cipher]

PeerStreamIds == 1..MaxPeerStreams

Alive == fault = "none"

\* onTransportReady: create numStreams_ streams and ask to be told when each
\* can be written
OnTransportReady ==
  /\ Alive /\ conn = "new"
  /\ IF sock_ = "null"
     THEN fault' = "null_sock_deref" /\ UNCHANGED <<conn, pendingWrite>>
     ELSE /\ conn' = "ready"
          /\ pendingWrite' = 1..numStreams_
          /\ UNCHANGED fault
  /\ UNCHANGED <<numStreams_, sock_, evbQueue, written, readCallbacks,
                 factoryVars, protectionVars, recordVars>>

\* onNewBidirectionalStream(id): sock_->setReadCallback(id, this)
OnNewBidirectionalStream ==
  /\ Alive /\ conn = "ready"
  /\ \E id \in PeerStreamIds :
       /\ <<"bidirectional", id>> \notin readCallbacks
       /\ IF sock_ = "null"
          THEN fault' = "null_sock_deref" /\ UNCHANGED readCallbacks
          ELSE readCallbacks' = readCallbacks \cup {<<"bidirectional", id>>}
               /\ UNCHANGED fault
  /\ UNCHANGED <<numStreams_, sock_, conn, pendingWrite, evbQueue, written,
                 factoryVars, protectionVars, recordVars>>

\* onNewUnidirectionalStream(id): sock_->setReadCallback(id, this)
OnNewUnidirectionalStream ==
  /\ Alive /\ conn = "ready"
  /\ \E id \in PeerStreamIds :
       /\ <<"unidirectional", id>> \notin readCallbacks
       /\ IF sock_ = "null"
          THEN fault' = "null_sock_deref" /\ UNCHANGED readCallbacks
          ELSE readCallbacks' = readCallbacks \cup {<<"unidirectional", id>>}
               /\ UNCHANGED fault
  /\ UNCHANGED <<numStreams_, sock_, conn, pendingWrite, evbQueue, written,
                 factoryVars, protectionVars, recordVars>>

\* notifyDataForStream(id): evb_->runInEventBaseThread([&, id]() {...})
notifyDataForStream(queue, id) == Append(queue, id)

\* onStreamWriteReady(id, maxToSend): sock_->writeChain(...), then
\* notifyDataForStream(id)
OnStreamWriteReady ==
  /\ Alive /\ conn = "ready"
  /\ \E id \in pendingWrite :
       /\ written[id] < MaxWrites
       /\ IF sock_ = "null"
          THEN fault' = "null_sock_deref"
               /\ UNCHANGED <<pendingWrite, written, evbQueue>>
          ELSE /\ pendingWrite' = pendingWrite \ {id}
               /\ written' = [written EXCEPT ![id] = @ + 1]
               /\ evbQueue' = notifyDataForStream(evbQueue, id)
               /\ UNCHANGED fault
  /\ UNCHANGED <<numStreams_, sock_, conn, readCallbacks,
                 factoryVars, protectionVars, recordVars>>

\* the event base runs the oldest function queued by notifyDataForStream:
\*   auto res = sock_->notifyPendingWriteOnStream(id, this);
\*   if (res.hasError()) LOG(FATAL)
RunDeferredNotify ==
  /\ Alive /\ evbQueue # <<>>
  /\ LET id == Head(evbQueue)
     IN  /\ evbQueue' = Tail(evbQueue)
         /\ IF sock_ = "null"
            THEN fault' = "null_sock_deref" /\ UNCHANGED pendingWrite
            ELSE IF conn # "ready"
            THEN fault' = "log_fatal" /\ UNCHANGED pendingWrite
            ELSE pendingWrite' = pendingWrite \cup {id} /\ UNCHANGED fault
  /\ UNCHANGED <<numStreams_, sock_, conn, written, readCallbacks,
                 factoryVars, protectionVars, recordVars>>

\* onConnectionEnd: sock_.reset(); the closing transport drops its callbacks
OnConnectionEnd ==
  /\ Alive /\ conn # "closed"
  /\ sock_' = "null"
  /\ conn' = "closed"
  /\ pendingWrite' = {}
  /\ UNCHANGED <<numStreams_, evbQueue, written, readCallbacks, fault,
                 factoryVars, protectionVars, recordVars>>

\* onConnectionError: only logs; the closing transport drops its callbacks
OnConnectionError ==
  /\ Alive /\ conn # "closed"
  /\ conn' = "closed"
  /\ pendingWrite' = {}
  /\ UNCHANGED <<numStreams_, sock_, evbQueue, written, readCallbacks, fault,
                 factoryVars, protectionVars, recordVars>>

InitTperf ==
  /\ \E n \in 1..MaxStreams : HandlerConstructed(n)
  /\ FactoryIdle /\ ProtectionIdle /\ RecordIdle

NextTperf ==
  \/ OnTransportReady
  \/ OnNewBidirectionalStream
  \/ OnNewUnidirectionalStream
  \/ OnStreamWriteReady
  \/ RunDeferredNotify
  \/ OnConnectionEnd
  \/ OnConnectionError

SpecTperf == InitTperf /\ [][NextTperf]_vars

\* C12: sock_ is set whenever the handler dereferences it; in particular the
\* function queued by notifyDataForStream never runs after onConnectionEnd
\* has reset sock_.
C12_SockSetWhenDereferenced == fault # "null_sock_deref"

\* what does hold: callbacks the transport itself makes find sock_ set, since
\* sock_ is null only once the connection is closed
C12_SockSetWhileOpen == (conn # "closed") => sock_ = "set"

====
